---- MODULE Spec2Model ----
(***************************************************************************)
(* A model of repo_doctor/diff_utils.py: the patch pipeline.               *)
(*                                                                         *)
(* A text (a Python str) is a sequence of characters; a character is a     *)
(* one-character string.  The string functions the code uses (replace,     *)
(* split, join, strip, startswith, in, the regular expressions) are        *)
(* operators on such sequences, computed as Python computes them.          *)
(***************************************************************************)
EXTENDS Integers, Sequences, FiniteSets, TLC

(***************************************************************************)
(* Python str primitives                                                   *)
(***************************************************************************)

\* str.isspace() / the regular expression class \s, on the model's alphabet
IsSpace(c) == c \in {" ", "\t", "\n", "\r"}

NL == <<"\n">>

Min(a, b) == IF a <= b THEN a ELSE b

\* s[n:]
Drop(s, n) == SubSeq(s, n + 1, Len(s))

\* s[:n]
Take(s, n) == SubSeq(s, 1, Min(n, Len(s)))

\* s.startswith(p)
StartsWith(s, p) == Len(s) >= Len(p) /\ SubSeq(s, 1, Len(p)) = p

\* s.endswith(p)
EndsWith(s, p) == Len(s) >= Len(p) /\ SubSeq(s, Len(s) - Len(p) + 1, Len(s)) = p

\* whether sub occurs in s at (1-based) position i
OccursAt(s, sub, i) ==
    /\ i >= 1
    /\ i + Len(sub) - 1 <= Len(s)
    /\ SubSeq(s, i, i + Len(sub) - 1) = sub

\* s.find(sub, from): the least position >= from where sub occurs, 0 when none
RECURSIVE FindFrom(_, _, _)
FindFrom(s, sub, from) ==
    IF from + Len(sub) - 1 > Len(s) THEN 0
    ELSE IF OccursAt(s, sub, from) THEN from
    ELSE FindFrom(s, sub, from + 1)

Find(s, sub) == FindFrom(s, sub, 1)

\* sub in s
Contains(s, sub) == Find(s, sub) # 0

\* s.replace(old, new, 1): only the first occurrence; s when there is none.
\* An empty old occurs at position 1, so new is put in front of s.
ReplaceFirst(s, old, new) ==
    LET i == Find(s, old)
    IN  IF i = 0 THEN s
        ELSE SubSeq(s, 1, i - 1) \o new \o Drop(s, i + Len(old) - 1)

\* s.replace(old, new) for a non-empty old: every occurrence, left to right,
\* not overlapping
RECURSIVE Replace(_, _, _)
Replace(s, old, new) ==
    LET i == Find(s, old)
    IN  IF i = 0 THEN s
        ELSE SubSeq(s, 1, i - 1) \o new \o Replace(Drop(s, i + Len(old) - 1), old, new)

\* s.split(sep) for a non-empty sep: always at least one piece
RECURSIVE Split(_, _)
Split(s, sep) ==
    LET i == Find(s, sep)
    IN  IF i = 0 THEN <<s>>
        ELSE <<SubSeq(s, 1, i - 1)>> \o Split(Drop(s, i + Len(sep) - 1), sep)

\* sep.join(parts)
RECURSIVE Join(_, _)
Join(parts, sep) ==
    IF parts = <<>> THEN <<>>
    ELSE IF Len(parts) = 1 THEN parts[1]
    ELSE parts[1] \o sep \o Join(Tail(parts), sep)

\* s.lstrip()
RECURSIVE lstrip(_)
lstrip(s) == IF s # <<>> /\ IsSpace(s[1]) THEN lstrip(Tail(s)) ELSE s

\* s.rstrip()
RECURSIVE rstrip(_)
rstrip(s) ==
    IF s # <<>> /\ IsSpace(s[Len(s)]) THEN rstrip(SubSeq(s, 1, Len(s) - 1)) ELSE s

\* s.strip()
strip(s) == lstrip(rstrip(s))

\* s.rstrip("\n")
RECURSIVE rstripNL(_)
rstripNL(s) ==
    IF s # <<>> /\ s[Len(s)] = "\n" THEN rstripNL(SubSeq(s, 1, Len(s) - 1)) ELSE s

(***************************************************************************)
(* normalize_unified_diff                                                  *)
(***************************************************************************)

\* "--- " and "+++ ", the prefixes that make a line a header line
HdrMinus == <<"-", "-", "-", " ">>
HdrPlus == <<"+", "+", "+", " ">>
\* "---", the typ of an old-file header
TypMinus == <<"-", "-", "-">>
TypPlus == <<"+", "+", "+">>
PrefixA == <<"a", "/">>
PrefixB == <<"b", "/">>
DotSlash == <<".", "/">>
DevNull == <<"/", "d", "e", "v", "/", "n", "u", "l", "l">>
\* "diff --git "
DiffGit == <<"d", "i", "f", "f", " ", "-", "-", "g", "i", "t", " ">>

\* Optional[str]: None is <<>>, a str p is <<p>>; truthy when set and non-empty
None == <<>>
Some(p) == <<p>>
Truthy(o) == o # None /\ o[1] # <<>>

\* Lines 24-35: the path of a header line, as rewritten.  The regular
\* expression ^(---|\+\+\+)\s+(.*)$ always matches a line that starts with
\* "--- " or "+++ ": \s+ takes the whole run of whitespace after the marker
\* and (.*) the rest of the line (a line holds no "\n").
HeaderPath(line) ==
    LET typ == Take(line, 3)
        path == lstrip(Drop(line, 3))
        p0 == strip(path)
        p1 == Replace(p0, <<"\\">>, <<"/">>)
    IN  IF ~(StartsWith(p1, PrefixA) \/ StartsWith(p1, PrefixB) \/ StartsWith(p1, DevNull))
        THEN LET prefix == IF typ = TypMinus THEN PrefixA ELSE PrefixB
                 p2 == IF StartsWith(p1, DotSlash) THEN Drop(p1, 2) ELSE p1
             IN  prefix \o p2
        ELSE p1

IsHeaderLine(line) == StartsWith(line, HdrMinus) \/ StartsWith(line, HdrPlus)

\* Lines 22-43: the loop over the lines, from line i on, with the loop's
\* variables out, a_path and b_path in st
RECURSIVE NormLoop(_, _, _)
NormLoop(lines, i, st) ==
    IF i > Len(lines) THEN st
    ELSE LET line == lines[i]
         IN  IF IsHeaderLine(line)
             THEN LET typ == Take(line, 3)
                      p == HeaderPath(line)
                      a == IF typ = TypMinus /\ p # DevNull /\ st.a_path = None
                           THEN Some(p) ELSE st.a_path
                      b == IF typ = TypPlus /\ p # DevNull /\ st.b_path = None
                           THEN Some(p) ELSE st.b_path
                  IN  NormLoop(lines, i + 1,
                               [out |-> Append(st.out, typ \o <<" ">> \o p),
                                a_path |-> a, b_path |-> b])
             ELSE NormLoop(lines, i + 1, [st EXCEPT !.out = Append(st.out, line)])

\* Lines 15-16: "\r\n" and a lone "\r" become "\n"
UnifyLineEndings(s) == Replace(Replace(s, <<"\r", "\n">>, NL), <<"\r">>, NL)

\* PrependHeader as it would be without the test of line 49
PrependHeaderUntested(normalized, a_path, b_path) ==
    IF Truthy(a_path) /\ Truthy(b_path)
    THEN DiffGit \o a_path[1] \o <<" ">> \o b_path[1] \o NL \o normalized
    ELSE normalized

\* Lines 47-50: the text with the diff --git preamble put in front when both
\* paths were found and the text does not start with one
PrependHeader(normalized, a_path, b_path) ==
    IF Truthy(a_path) /\ Truthy(b_path) /\ ~StartsWith(lstrip(normalized), DiffGit)
    THEN DiffGit \o a_path[1] \o <<" ">> \o b_path[1] \o NL \o normalized
    ELSE normalized

\* EnsureTrailingNewline as it would be without lines 52-53
TrailingNewlineLeftOut(normalized) == normalized

\* Lines 52-53
EnsureTrailingNewline(normalized) ==
    IF ~EndsWith(normalized, NL) THEN normalized \o NL ELSE normalized

normalize_unified_diff(diff_text) ==
    LET text == UnifyLineEndings(diff_text)
        lines == Split(text, NL)
        st == NormLoop(lines, 1, [out |-> <<>>, a_path |-> None, b_path |-> None])
        normalized == Join(st.out, NL)
    IN  EnsureTrailingNewline(PrependHeader(normalized, st.a_path, st.b_path))

(***************************************************************************)
(* fallback_apply_by_search_replace: the pure parts                        *)
(***************************************************************************)

\* whether position p of text is where ^ matches under re.M
AtLineStart(text, p) == p = 1 \/ (p >= 2 /\ p - 1 <= Len(text) /\ text[p - 1] = "\n")

\* the first position >= p of text that holds a character of class no(_),
\* or Len(text) + 1: the end of the longest run, from p, of the other characters
RECURSIVE RunEnd(_, _, _)
RunEnd(text, p, stopAtNewline) ==
    IF p > Len(text) THEN p
    ELSE IF stopAtNewline /\ text[p] = "\n" THEN p
    ELSE IF ~stopAtNewline /\ ~IsSpace(text[p]) THEN p
    ELSE RunEnd(text, p + 1, stopAtNewline)

\* end of the current line: the position of its "\n", or Len(text) + 1
LineEnd(text, p) == RunEnd(text, p, TRUE)

\* end of the run of whitespace (\s*, newlines included) that starts at p
SpaceEnd(text, p) == RunEnd(text, p, FALSE)

\* Line 84: re.search(r'^\+\+\+\s+([^\n]+)', text, flags=re.M), tried at the
\* line start p: \s+ is greedy, so it gives back characters, longest run
\* first, until a character other than "\n" follows; the group then runs to
\* the end of that line.  <<>> when there is no match at p, else <<group>>.
RECURSIVE PlusHeaderBacktrack(_, _, _)
PlusHeaderBacktrack(text, lo, j) ==
    \* j: where the group would start; lo: the least j (one \s taken)
    IF j < lo THEN None
    ELSE IF j <= Len(text) /\ text[j] # "\n"
         THEN Some(SubSeq(text, j, LineEnd(text, j) - 1))
         ELSE PlusHeaderBacktrack(text, lo, j - 1)

PlusHeaderAt(text, p) ==
    IF ~(AtLineStart(text, p) /\ OccursAt(text, TypPlus, p)) THEN None
    ELSE PlusHeaderBacktrack(text, p + 4, SpaceEnd(text, p + 3))

\* the first match of the +++ header in text, scanning from position p
RECURSIVE PlusHeaderFrom(_, _)
PlusHeaderFrom(text, p) ==
    IF p > Len(text) THEN None
    ELSE LET m == PlusHeaderAt(text, p)
         IN  IF m # None THEN m ELSE PlusHeaderFrom(text, p + 1)

PlusHeader(text) == PlusHeaderFrom(text, 1)

\* Lines 87-93: the target path from the header's group
TargetPath(group) ==
    LET b0 == strip(group)
        b1 == Replace(b0, <<"\\">>, <<"/">>)
        b2 == IF StartsWith(b1, PrefixB) \/ StartsWith(b1, PrefixA) THEN Drop(b1, 2) ELSE b1
    IN  IF StartsWith(b2, DotSlash) THEN Drop(b2, 2) ELSE b2

AtAt == <<"@", "@">>

IsBodyMarker(c) == c \in {" ", "\t", "+", "-"}

\* Line 107, (?:[ \t\+\-].*\n)+ from position p: the end (exclusive) of the
\* longest run of whole lines, each starting with a marker and ended by "\n";
\* p itself when not even one line matches
RECURSIVE BodyEnd(_, _)
BodyEnd(text, p) ==
    IF p <= Len(text) /\ IsBodyMarker(text[p]) /\ LineEnd(text, p) <= Len(text)
    THEN BodyEnd(text, LineEnd(text, p) + 1)
    ELSE p

\* Line 107, \s*\n(?P<body>...) after the closing @@: \s* is greedy, so the
\* "\n" tried first is the last one of the whitespace run; j goes down from
\* the end of the run to lo.  0 when no "\n" of the run is followed by a body,
\* else the position where the body starts.
RECURSIVE BodyStartBacktrack(_, _, _)
BodyStartBacktrack(text, lo, j) ==
    IF j < lo THEN 0
    ELSE IF j <= Len(text) /\ text[j] = "\n" /\ BodyEnd(text, j + 1) > j + 1
         THEN j + 1
         ELSE BodyStartBacktrack(text, lo, j - 1)

\* Line 107, .*?@@ from position q on the header line: .*? is lazy, so the
\* closing @@ tried first is the nearest one.  0, or where the body starts.
RECURSIVE HunkCloseFrom(_, _)
HunkCloseFrom(text, q) ==
    IF q + 1 > Len(text) \/ text[q] = "\n" THEN 0
    ELSE LET b == IF OccursAt(text, AtAt, q)
                  THEN BodyStartBacktrack(text, q + 2, SpaceEnd(text, q + 2))
                  ELSE 0
         IN  IF b # 0 THEN b ELSE HunkCloseFrom(text, q + 1)

\* the hunk pattern tried at position p: 0, or where the body starts
HunkAt(text, p) ==
    IF AtLineStart(text, p) /\ OccursAt(text, AtAt, p)
    THEN HunkCloseFrom(text, p + 2)
    ELSE 0

\* Lines 107-108: re.finditer from position p on; each match gives its body,
\* body.rstrip("\n").split("\n"), and the scan goes on where the match ended
RECURSIVE HunksFrom(_, _)
HunksFrom(text, p) ==
    IF p > Len(text) THEN <<>>
    ELSE LET b == HunkAt(text, p)
         IN  IF b = 0 THEN HunksFrom(text, p + 1)
             ELSE LET e == BodyEnd(text, b)
                  IN  <<Split(rstripNL(SubSeq(text, b, e - 1)), NL)>> \o HunksFrom(text, e)

Hunks(text) == HunksFrom(text, 1)

IsContextLine(line) == StartsWith(line, <<" ">>) \/ StartsWith(line, <<"\t">>)
IsRemovedLine(line) == StartsWith(line, <<"-">>) /\ ~StartsWith(line, TypMinus)
IsAddedLine(line) == StartsWith(line, <<"+">>) /\ ~StartsWith(line, TypPlus)

\* l[1:] for every line l of lines
Unmarked(lines) == [i \in 1..Len(lines) |-> Tail(lines[i])]

IsPatternLine(line) == IsContextLine(line) \/ IsRemovedLine(line)
IsReplacementLine(line) == IsContextLine(line) \/ IsAddedLine(line)

\* Lines 110-123: context and removed lines, markers stripped, joined
PatternOf(body) == Join(Unmarked(SelectSeq(body, IsPatternLine)), NL)

\* Lines 110-124: context and added lines, markers stripped, joined
ReplacementOf(body) == Join(Unmarked(SelectSeq(body, IsReplacementLine)), NL)

\* Lines 132-133
RemovedOf(body) == Unmarked(SelectSeq(body, IsRemovedLine))
AddedOf(body) == Unmarked(SelectSeq(body, IsAddedLine))

\* ApplyHunk as it would be with replace(..., 1) written without its count:
\* every occurrence is replaced
ApplyHunkEveryOccurrence(body, content) ==
    LET pattern == PatternOf(body)
        removed == RemovedOf(body)
        rem_block == Join(removed, NL)
        add_block == Join(AddedOf(body), NL)
    IN  IF pattern # <<>> /\ Contains(content, pattern)
        THEN [applied |-> TRUE, tier |-> 1,
              content |-> Replace(content, pattern, ReplacementOf(body))]
        ELSE IF removed # <<>> /\ rem_block # <<>> /\ Contains(content, rem_block)
        THEN [applied |-> TRUE, tier |-> 2,
              content |-> Replace(content, rem_block, add_block)]
        ELSE IF removed # <<>> /\ Contains(content, removed[1])
        THEN [applied |-> TRUE, tier |-> 3,
              content |-> IF removed[1] = <<>> THEN add_block \o content
                          ELSE Replace(content, removed[1], add_block)]
        ELSE [applied |-> FALSE, tier |-> 0, content |-> content]

\* ApplyHunk as it would be with applied starting as True at line 126: a
\* hunk that matches nothing counts as applied
ApplyHunkAppliedAnyway(body, content) ==
    LET pattern == PatternOf(body)
        removed == RemovedOf(body)
        rem_block == Join(removed, NL)
        add_block == Join(AddedOf(body), NL)
    IN  IF pattern # <<>> /\ Contains(content, pattern)
        THEN [applied |-> TRUE, tier |-> 1,
              content |-> ReplaceFirst(content, pattern, ReplacementOf(body))]
        ELSE IF removed # <<>> /\ rem_block # <<>> /\ Contains(content, rem_block)
        THEN [applied |-> TRUE, tier |-> 2,
              content |-> ReplaceFirst(content, rem_block, add_block)]
        ELSE IF removed # <<>> /\ Contains(content, removed[1])
        THEN [applied |-> TRUE, tier |-> 3,
              content |-> ReplaceFirst(content, removed[1], add_block)]
        ELSE [applied |-> TRUE, tier |-> 0, content |-> content]

\* Lines 126-142: one hunk against the in-memory content.  tier is the
\* branch that replaced (1: line 128, 2: line 138, 3: line 141), 0 when the
\* hunk stays unapplied.
ApplyHunk(body, content) ==
    LET pattern == PatternOf(body)
        replacement == ReplacementOf(body)
        removed == RemovedOf(body)
        rem_block == Join(removed, NL)
        add_block == Join(AddedOf(body), NL)
    IN  IF pattern # <<>> /\ Contains(content, pattern)
        THEN [applied |-> TRUE, tier |-> 1,
              content |-> ReplaceFirst(content, pattern, replacement)]
        ELSE IF removed # <<>>
        THEN IF rem_block # <<>> /\ Contains(content, rem_block)
             THEN [applied |-> TRUE, tier |-> 2,
                   content |-> ReplaceFirst(content, rem_block, add_block)]
             ELSE IF Contains(content, removed[1])
             THEN [applied |-> TRUE, tier |-> 3,
                   content |-> ReplaceFirst(content, removed[1], add_block)]
             ELSE [applied |-> FALSE, tier |-> 0, content |-> content]
        ELSE [applied |-> FALSE, tier |-> 0, content |-> content]

(***************************************************************************)
(* extract_diff_block                                                      *)
(***************************************************************************)

\* the backtick character: a TLA+ string cannot hold it, so it is written
\* by its name (a character is any string that stands for one)
Backtick == "backtick"

\* the three backticks of a fence, and the two tags of line 61
Fence == <<Backtick, Backtick, Backtick>>
TagDiff == <<"d", "i", "f", "f">>
TagPatch == <<"p", "a", "t", "c", "h">>

\* Line 61, ```(?:diff|patch) tried at position p: the position after the
\* tag, 0 when neither alternative matches there
TagEnd(markdown, p) ==
    IF OccursAt(markdown, Fence \o TagDiff, p) THEN p + Len(Fence) + Len(TagDiff)
    ELSE IF OccursAt(markdown, Fence \o TagPatch, p) THEN p + Len(Fence) + Len(TagPatch)
    ELSE 0

\* FenceClose as it would be with a greedy group, ([\s\S]*)```: the group
\* runs to the last ``` of the text
RECURSIVE FenceCloseGreedy(_, _)
FenceCloseGreedy(markdown, from) ==
    LET c == FindFrom(markdown, Fence, from)
    IN  IF c = 0 THEN 0
        ELSE IF FindFrom(markdown, Fence, c + 1) = 0 THEN c
        ELSE FenceCloseGreedy(markdown, c + 1)

\* Line 61, ([\s\S]*?)``` with the group starting at position from: the
\* group is lazy, so the ``` that closes it is the nearest one; its
\* position, 0 when there is none
FenceClose(markdown, from) == FindFrom(markdown, Fence, from)

\* Line 61, \s*\n([\s\S]*?)``` after the tag: \s* is greedy, so the "\n"
\* tried first is the last one of the run of whitespace after the tag; j
\* goes down from the end of the run to lo.  None, or group 1.
RECURSIVE FenceBacktrack(_, _, _)
FenceBacktrack(markdown, lo, j) ==
    IF j < lo THEN None
    ELSE IF markdown[j] = "\n" /\ FenceClose(markdown, j + 1) # 0
         THEN Some(SubSeq(markdown, j + 1, FenceClose(markdown, j + 1) - 1))
         ELSE FenceBacktrack(markdown, lo, j - 1)

\* the pattern of line 61 tried at position p: None, or group 1
FenceAt(markdown, p) ==
    LET e == TagEnd(markdown, p)
    IN  IF e = 0 THEN None
        ELSE FenceBacktrack(markdown, e, SpaceEnd(markdown, e) - 1)

\* Line 61: re.search, the first position from p on where the pattern matches
RECURSIVE FenceFrom(_, _)
FenceFrom(markdown, p) ==
    IF p > Len(markdown) THEN None
    ELSE LET m == FenceAt(markdown, p)
         IN  IF m # None THEN m ELSE FenceFrom(markdown, p + 1)

\* Lines 67-68: while lines and not lines[-1].strip(): lines.pop()
RECURSIVE PopBlankLines(_)
PopBlankLines(lines) ==
    IF lines # <<>> /\ strip(lines[Len(lines)]) = <<>>
    THEN PopBlankLines(SubSeq(lines, 1, Len(lines) - 1))
    ELSE lines

extract_diff_block(markdown) ==
    LET m == FenceFrom(markdown, 1)
    IN  IF m # None
        THEN LET diff_content == rstrip(m[1])
                 lines == Split(diff_content, NL)
             IN  Join(PopBlankLines(lines), NL)
        ELSE strip(markdown)

(***************************************************************************)
(* The inputs of the runs                                                  *)
(***************************************************************************)

\* the diffs and files the runs start from, as texts
HeaderPlain == <<"-", "-", "-", " ", "x", "\n", "+", "+", "+", " ", "x", "\n">>
HeaderGit ==
    <<"d", "i", "f", "f", " ", "-", "-", "g", "i", "t", " ", "a", "/", "x", " ", "b", "/", "x", "\n", "-", "-", "-", " ", "a", "/", "x", "\n", "+", "+", "+", " ", "b", "/", "x", "\n">>
HeaderCRLF ==
    <<"-", "-", "-", " ", "x", "\r", "\n", "+", "+", "+", " ", ".", "\\", "x", "\r", "\n">>
HeaderOther ==
    <<"-", "-", "-", " ", "a", "/", "y", "\n", "+", "+", "+", " ", "b", "/", "y", "\n">>
\* context and removed lines that occur together: line 128 replaces
HunkCtx ==
    <<"@", "@", " ", "-", "1", ",", "2", " ", "+", "1", ",", "2", " ", "@", "@", "\n", " ", "a", "\n", "-", "b", "\n", "+", "c", "\n">>
\* a context line that does not occur, removed lines that do: line 138
HunkRem ==
    <<"@", "@", " ", "@", "@", "\n", " ", "z", "\n", "-", "b", "\n", "+", "c", "\n">>
\* only the first removed line occurs: line 141
HunkFirst ==
    <<"@", "@", " ", "@", "@", "\n", "-", "b", "\n", "-", "z", "\n", "+", "c", "\n">>
\* nothing of it occurs
HunkNone == <<"@", "@", " ", "@", "@", "\n", "-", "z", "\n", "+", "c", "\n">>
\* the removed line is an empty line
HunkEmptyLine == <<"@", "@", " ", "@", "@", "\n", "-", "\n", "+", "c", "\n">>
\* no context and no removed line
HunkAddOnly == <<"@", "@", " ", "@", "@", "\n", "+", "c", "\n">>
\* the hunk that removes '    return 1' and adds '    return 2'
HunkReturn ==
    <<"@", "@", " ", "-", "2", " ", "+", "2", " ", "@", "@", "\n", "-", " ", " ", " ", " ", "r", "e", "t", "u", "r", "n", " ", "1", "\n", "+", " ", " ", " ", " ", "r", "e", "t", "u", "r", "n", " ", "2", "\n">>
FileAB == <<"a", "\n", "b", "\n", "a", "\n", "b", "\n">>
FileDef ==
    <<"d", "e", "f", " ", "f", "(", ")", ":", "\n", " ", " ", " ", " ", "r", "e", "t", "u", "r", "n", " ", "1", "\n">>
FileDefPatched ==
    <<"d", "e", "f", " ", "f", "(", ")", ":", "\n", " ", " ", " ", " ", "r", "e", "t", "u", "r", "n", " ", "2", "\n">>
PathX == <<"x">>

\* how many hunks a diff of the runs holds at most
MaxHunks == 2

Headers == {<<>>, HeaderPlain, HeaderGit, HeaderCRLF, HeaderOther}
HunkTexts == {HunkCtx, HunkRem, HunkFirst, HunkNone, HunkEmptyLine, HunkAddOnly}

\* the concatenation of a sequence of texts
RECURSIVE Concat(_)
Concat(texts) == IF texts = <<>> THEN <<>> ELSE texts[1] \o Concat(Tail(texts))

HunkSeqs == UNION {[1..n -> HunkTexts] : n \in 0..MaxHunks}

\* the arguments apply_patch is called with: a header and some hunks, and
\* the empty and the whitespace-only text
DiffInputs ==
    {h \o Concat(hs) : h \in Headers, hs \in HunkSeqs}
    \cup {HeaderPlain \o HunkReturn, <<" ", "\n">>, <<"\n", "\t", "\r", "\n">>}

\* the working directory: a function from the paths of its files to their
\* contents
NoFiles == [q \in {} |-> <<>>]
OneFile(path, text) == [q \in {path} |-> text]
FileSystems == {NoFiles, OneFile(PathX, FileAB), OneFile(PathX, FileDef)}

(***************************************************************************)
(* apply_patch and fallback_apply_by_search_replace as a state machine     *)
(***************************************************************************)

VARIABLES
    pc,         \* where the call of apply_patch stands
    diff_text,  \* apply_patch's diff_text: the argument, reassigned at lines 166, 169
    patch_file, \* the temporary patch file: "none", "exists" or "unlinked"
    cmd_i,      \* the index into cmds of the loop of line 185
    result,     \* the result of the last subprocess.run
    fs,         \* the working directory
    fs_entry,   \* the working directory when the fallback was called
    b_path,     \* fallback: the target path
    content,    \* fallback: the in-memory content
    changed,    \* fallback: the count of applied hunks
    hunk_i,     \* fallback: the index of the next match of re.finditer
    tier,       \* fallback: the branch that applied the last hunk
    fb_ret,     \* fallback: None or its returned (ok, msg)
    ret,        \* None, or the (ok, msg) apply_patch returned
    log,        \* the external calls made so far, in order
    norm_pc,    \* where the calls of normalize_unified_diff stand
    norm_in,    \* normalize_unified_diff: the argument of the last call
    norm_out,   \* normalize_unified_diff: what the call returned for norm_in
    norm_again, \* normalize_unified_diff: what a second call returned for norm_out
    ext_pc,     \* where the call of extract_diff_block stands
    markdown,   \* extract_diff_block: the argument
    extracted   \* extract_diff_block: what the call returned for markdown

vars == <<pc, diff_text, patch_file, cmd_i, result, fs, fs_entry, b_path,
          content, changed, hunk_i, tier, fb_ret, ret, log,
          norm_pc, norm_in, norm_out, norm_again,
          ext_pc, markdown, extracted>>

fbVars == <<b_path, content, changed, hunk_i, tier, fb_ret, fs, fs_entry>>
normVars == <<norm_pc, norm_in, norm_out, norm_again>>
extVars == <<ext_pc, markdown, extracted>>

\* Lines 178-184: cmd[1:] of each command, patch_path standing for the name
\* of the temporary file
Cmds == <<
    <<"apply", "--whitespace=fix", "patch_path">>,
    <<"apply", "--ignore-whitespace", "patch_path">>,
    <<"apply", "-p0", "patch_path">>,
    <<"apply", "-p1", "patch_path">>,
    <<"apply", "--reject", "patch_path">> >>

NoResult == [returncode |-> 0, stderr |-> <<>>, stdout |-> <<>>]

\* what a git apply that fails may print: on stderr, on stdout, or on both
FailedResults(i) ==
    {[returncode |-> 1, stderr |-> <<"stderr of ", Cmds[i][2]>>, stdout |-> <<>>],
     [returncode |-> 1, stderr |-> <<>>, stdout |-> <<"stdout of ", Cmds[i][2]>>],
     [returncode |-> 1, stderr |-> <<"stderr of ", Cmds[i][2]>>,
      stdout |-> <<"stdout of ", Cmds[i][2]>>]}

Ret(ok, msg) == Some([ok |-> ok, msg |-> msg])

\* str(e) of an exception
ExcText(what) == <<"<exception: ", what, ">">>

\* a record of one external call
Call(op, what, outcome) == [op |-> op, what |-> what, outcome |-> outcome]

\* Line 168
MsgEmpty == <<"Empty diff content">>

\* Line 188: ' '.join(cmd[1:]) in the message
MsgApplied(cmd) == <<"Patch applied successfully (">> \o Join([k \in 1..Len(cmd) |-> <<cmd[k]>>], <<" ">>) \o <<")">>

\* Line 193
MsgViaFallback(msg) == <<"Patch applied via fallback: ">> \o msg

\* MsgBothFailed as it would be with the fallback's msg left out
MsgGitOnly(res, msg) ==
    <<"git apply failed: ">> \o (IF res.stderr # <<>> THEN res.stderr ELSE res.stdout)

\* Line 195: result.stderr or result.stdout
MsgBothFailed(res, msg) ==
    <<"git apply failed: ">> \o (IF res.stderr # <<>> THEN res.stderr ELSE res.stdout)
        \o <<"; ">> \o msg

\* Line 197
MsgError(e) == <<"Error applying patch: ">> \o e

MsgNoHeader == <<"Fallback: no +++ header found">>
MsgNotFound(path) == <<"Fallback: target file not found: ">> \o path
MsgCannotRead(path, e) == <<"Fallback: cannot read file ">> \o path \o <<": ">> \o e
MsgMismatch == <<"Fallback: unable to match hunk to file content">>
MsgWriteFailed(e) == <<"Fallback: write failed: ">> \o e
MsgFallbackApplied(n) == <<"Fallback applied ", ToString(n), " hunk(s)">>
MsgNoChanges == <<"Fallback: no changes applied">>

\* IsEmptyDiff as it would be without the strip() of line 166
IsEmptyDiffUnstripped(text) == text = <<>>

\* Lines 166-167: not diff_text, once stripped
IsEmptyDiff(text) == strip(text) = <<>>

\* ExitedZero as it would be if the loop never returned at line 188
ExitedZeroIgnored(res) == FALSE

\* Line 187
ExitedZero(res) == res.returncode = 0

\* FallbackResult as it would be without the test of line 154
FallbackResultUntested(n) == Ret(TRUE, MsgFallbackApplied(n))

\* Lines 154-156
FallbackResult(n) ==
    IF n > 0 THEN Ret(TRUE, MsgFallbackApplied(n)) ELSE Ret(FALSE, MsgNoChanges)

Init ==
    /\ pc = "start"
    /\ diff_text \in DiffInputs
    /\ patch_file = "none"
    /\ cmd_i = 1
    /\ result = NoResult
    /\ fs \in FileSystems
    /\ fs_entry = fs
    /\ b_path = <<>>
    /\ content = <<>>
    /\ changed = 0
    /\ hunk_i = 1
    /\ tier = 0
    /\ fb_ret = None
    /\ ret = None
    /\ log = <<>>
    /\ norm_pc = "idle"
    /\ norm_in = <<>>
    /\ norm_out = <<>>
    /\ norm_again = <<>>
    /\ ext_pc = "idle"
    /\ markdown = <<>>
    /\ extracted = <<>>

\* Lines 166-168: an argument that is empty once stripped
ReturnEmpty ==
    /\ pc = "start"
    /\ IsEmptyDiff(diff_text)
    /\ diff_text' = strip(diff_text)
    /\ ret' = Ret(FALSE, MsgEmpty)
    /\ pc' = "done"
    /\ UNCHANGED <<patch_file, cmd_i, result, log>>
    /\ UNCHANGED fbVars
    /\ UNCHANGED normVars
    /\ UNCHANGED extVars

\* Lines 166-169: any other argument is stripped and normalized
Normalize ==
    /\ pc = "start"
    /\ ~IsEmptyDiff(diff_text)
    /\ diff_text' = normalize_unified_diff(strip(diff_text))
    /\ pc' = "mktemp"
    /\ UNCHANGED <<patch_file, cmd_i, result, ret, log>>
    /\ UNCHANGED fbVars
    /\ UNCHANGED normVars
    /\ UNCHANGED extVars

\* Line 171: tempfile.NamedTemporaryFile(..., delete=False) creates the file,
\* or raises; the statement stands outside the try of line 176
MakeTemp ==
    /\ pc = "mktemp"
    /\ \/ /\ patch_file' = "exists"
          /\ pc' = "write_tmp"
          /\ log' = Append(log, Call("mktemp", "patch_path", "ok"))
       \/ /\ patch_file' = patch_file
          /\ pc' = "raised"
          /\ log' = Append(log, Call("mktemp", "patch_path", "raised"))
    /\ UNCHANGED <<diff_text, cmd_i, result, ret>>
    /\ UNCHANGED fbVars
    /\ UNCHANGED normVars
    /\ UNCHANGED extVars

\* Lines 172-174: write and flush, then the with statement closes the file;
\* an exception of write or flush leaves the with statement, which closes
\* the file and (delete=False) keeps it, and leaves apply_patch
WriteTemp ==
    /\ pc = "write_tmp"
    /\ \/ /\ pc' = "git"
          /\ log' = Append(log, Call("write", "patch_path", "ok"))
       \/ /\ pc' = "raised"
          /\ log' = Append(log, Call("write", "patch_path", "raised"))
    /\ UNCHANGED <<diff_text, patch_file, cmd_i, result, ret>>
    /\ UNCHANGED fbVars
    /\ UNCHANGED normVars
    /\ UNCHANGED extVars

\* what a git apply may exit with and print
GitResults(i) == {[returncode |-> 0, stderr |-> <<>>, stdout |-> <<>>]} \cup FailedResults(i)

\* Lines 185-188 and 196-197: one turn of the loop over cmds.  git apply is
\* known by its exit code and output only.
RunGit ==
    /\ pc = "git"
    /\ LET cmd == Cmds[cmd_i]
       IN  \/ \* subprocess.run raises (no git to run): line 197
              /\ ret' = Ret(FALSE, MsgError(ExcText("subprocess.run")))
              /\ pc' = "finally"
              /\ log' = Append(log, Call("git", cmd[2], "raised"))
              /\ UNCHANGED <<cmd_i, result>>
           \/ \E res \in GitResults(cmd_i) :
                /\ result' = res
                /\ log' = Append(log, Call("git", cmd[2],
                                           IF res.returncode = 0 THEN "exit 0" ELSE "exit 1"))
                /\ IF ExitedZero(res)
                   THEN \* line 188
                        /\ ret' = Ret(TRUE, MsgApplied(cmd))
                        /\ pc' = "finally"
                        /\ UNCHANGED cmd_i
                   ELSE \* the next command, or line 191
                        /\ IF cmd_i < Len(Cmds)
                           THEN cmd_i' = cmd_i + 1 /\ pc' = "git"
                           ELSE cmd_i' = cmd_i /\ pc' = "fallback"
                        /\ UNCHANGED ret
    /\ UNCHANGED <<diff_text, patch_file>>
    /\ UNCHANGED fbVars
    /\ UNCHANGED normVars
    /\ UNCHANGED extVars

\* the text the fallback works on (line 81)
FbText == UnifyLineEndings(diff_text)

\* Path(b_path).exists(): a file of the working directory, or the working
\* directory itself (Path("") is Path("."))
Exists(files, path) == path \in DOMAIN files \/ path = <<>> \/ path = <<".">>

\* Lines 81-97 (and 196-197): the target path from the first +++ header and
\* the probe of the file
FbHeader ==
    /\ pc = "fallback"
    /\ fs_entry' = fs
    /\ LET m == PlusHeader(FbText)
           called == Append(log, Call("fallback", "diff_text", "called"))
       IN  IF m = None
           THEN /\ fb_ret' = Ret(FALSE, MsgNoHeader)
                /\ pc' = "fb_return"
                /\ log' = called
                /\ UNCHANGED <<b_path, ret>>
           ELSE LET path == TargetPath(m[1])
                IN  /\ b_path' = path
                    /\ \/ \* the probe raises (a directory that may not be searched)
                          /\ ret' = Ret(FALSE, MsgError(ExcText("Path.exists")))
                          /\ pc' = "finally"
                          /\ log' = Append(called, Call("exists", "target", "raised"))
                          /\ UNCHANGED fb_ret
                       \/ /\ ~Exists(fs, path)
                          /\ fb_ret' = Ret(FALSE, MsgNotFound(path))
                          /\ pc' = "fb_return"
                          /\ log' = Append(called, Call("exists", "target", "False"))
                          /\ UNCHANGED ret
                       \/ /\ Exists(fs, path)
                          /\ pc' = "fb_read"
                          /\ log' = Append(called, Call("exists", "target", "True"))
                          /\ UNCHANGED <<fb_ret, ret>>
    /\ UNCHANGED <<diff_text, patch_file, cmd_i, result>>
    /\ UNCHANGED <<content, changed, hunk_i, tier, fs>>
    /\ UNCHANGED normVars
    /\ UNCHANGED extVars

\* Lines 99-104: read_text, which raises for what is no file
FbRead ==
    /\ pc = "fb_read"
    /\ \/ /\ b_path \in DOMAIN fs
          /\ content' = fs[b_path]
          /\ changed' = 0
          /\ hunk_i' = 1
          /\ pc' = "fb_hunk"
          /\ log' = Append(log, Call("read", "target", "ok"))
          /\ UNCHANGED fb_ret
       \/ /\ fb_ret' = Ret(FALSE, MsgCannotRead(b_path, ExcText("read_text")))
          /\ pc' = "fb_return"
          /\ log' = Append(log, Call("read", "target", "raised"))
          /\ UNCHANGED <<content, changed, hunk_i>>
    /\ UNCHANGED <<diff_text, patch_file, cmd_i, result, ret>>
    /\ UNCHANGED <<b_path, tier, fs, fs_entry>>
    /\ UNCHANGED normVars
    /\ UNCHANGED extVars

\* Lines 107-147: one turn of the loop over the hunks
FbHunk ==
    /\ pc = "fb_hunk"
    /\ hunk_i <= Len(Hunks(FbText))
    /\ LET r == ApplyHunk(Hunks(FbText)[hunk_i], content)
       IN  IF r.applied
           THEN /\ content' = r.content
                /\ changed' = changed + 1
                /\ tier' = r.tier
                /\ hunk_i' = hunk_i + 1
                /\ UNCHANGED <<pc, fb_ret>>
           ELSE /\ fb_ret' = Ret(FALSE, MsgMismatch)
                /\ tier' = 0
                /\ pc' = "fb_return"
                /\ UNCHANGED <<content, changed, hunk_i>>
    /\ UNCHANGED <<diff_text, patch_file, cmd_i, result, ret, log>>
    /\ UNCHANGED <<b_path, fs, fs_entry>>
    /\ UNCHANGED normVars
    /\ UNCHANGED extVars

\* Lines 149-156: after the last hunk, write_text and the result.  A
\* write_text that raises did not open the file, or opened it (emptied it)
\* and wrote none or all of the text.
FbWrite ==
    /\ pc = "fb_hunk"
    /\ hunk_i > Len(Hunks(FbText))
    /\ \/ /\ fs' = [fs EXCEPT ![b_path] = content]
          /\ fb_ret' = FallbackResult(changed)
          /\ log' = Append(log, Call("write", "target", "ok"))
       \/ /\ fs' \in {fs, [fs EXCEPT ![b_path] = <<>>], [fs EXCEPT ![b_path] = content]}
          /\ fb_ret' = Ret(FALSE, MsgWriteFailed(ExcText("write_text")))
          /\ log' = Append(log, Call("write", "target", "raised"))
    /\ pc' = "fb_return"
    /\ UNCHANGED <<diff_text, patch_file, cmd_i, result, ret>>
    /\ UNCHANGED <<b_path, content, changed, hunk_i, tier, fs_entry>>
    /\ UNCHANGED normVars
    /\ UNCHANGED extVars

\* Lines 191-195: the fallback has returned (ok, msg)
FbReturn ==
    /\ pc = "fb_return"
    /\ ret' = IF fb_ret[1].ok
              THEN Ret(TRUE, MsgViaFallback(fb_ret[1].msg))
              ELSE Ret(FALSE, MsgBothFailed(result, fb_ret[1].msg))
    /\ pc' = "finally"
    /\ UNCHANGED <<diff_text, patch_file, cmd_i, result, log>>
    /\ UNCHANGED fbVars
    /\ UNCHANGED normVars
    /\ UNCHANGED extVars

\* Lines 198-202: os.unlink(patch_path), an exception of it swallowed
Finally ==
    /\ pc = "finally"
    /\ \/ /\ patch_file' = "unlinked"
          /\ log' = Append(log, Call("unlink", "patch_path", "ok"))
       \/ /\ patch_file' = patch_file
          /\ log' = Append(log, Call("unlink", "patch_path", "raised"))
    /\ pc' = "done"
    /\ UNCHANGED <<diff_text, cmd_i, result, ret>>
    /\ UNCHANGED fbVars
    /\ UNCHANGED normVars
    /\ UNCHANGED extVars

Next ==
    \/ ReturnEmpty
    \/ Normalize
    \/ MakeTemp
    \/ WriteTemp
    \/ RunGit
    \/ FbHeader
    \/ FbRead
    \/ FbHunk
    \/ FbWrite
    \/ FbReturn
    \/ Finally

Spec == Init /\ [][Next]_vars

(***************************************************************************)
(* normalize_unified_diff called on its own, and again on what it returned *)
(***************************************************************************)

LineBlank == <<" ">>
LineOld == <<"-", "-", "-", " ", "x">>
LineOldEmpty == <<"-", "-", "-", " ">>
LineOldA == <<"-", "-", "-", " ", "a", "/", "x">>
LineOldWin == <<"-", "-", "-", " ", " ", ".", "\\", "x", " ">>
LineOldNull == <<"-", "-", "-", " ", "/", "d", "e", "v", "/", "n", "u", "l", "l">>
LineNew == <<"+", "+", "+", " ", ".", "/", "y">>
LineNewB == <<"+", "+", "+", " ", "b", "/", "y">>
LineGit == <<"d", "i", "f", "f", " ", "-", "-", "g", "i", "t", " ", "a", "/", "x", " ", "b", "/", "y">>
LineRemoved == <<"-", "x">>

\* how many lines an argument of these calls holds at most
MaxLines == 3

NormLines == {<<>>, LineBlank, LineOld, LineOldEmpty, LineOldA, LineOldWin, LineOldNull,
              LineNew, LineNewB, LineGit, LineRemoved}
LineEnds == {<<"\n">>, <<"\r", "\n">>, <<"\r">>}

\* the arguments: some lines joined by one kind of line end (empty last
\* lines make the line ends that follow the last line)
NormInputs ==
    {Join(ls, e) : ls \in UNION {[1..m -> NormLines] : m \in 0..MaxLines}, e \in LineEnds}

InitNorm ==
    /\ pc = "idle"
    /\ diff_text = <<>>
    /\ patch_file = "none"
    /\ cmd_i = 1
    /\ result = NoResult
    /\ fs = NoFiles
    /\ fs_entry = NoFiles
    /\ b_path = <<>>
    /\ content = <<>>
    /\ changed = 0
    /\ hunk_i = 1
    /\ tier = 0
    /\ fb_ret = None
    /\ ret = None
    /\ log = <<>>
    /\ norm_pc = "call"
    /\ norm_in \in NormInputs
    /\ norm_out = <<>>
    /\ norm_again = <<>>
    /\ ext_pc = "idle"
    /\ markdown = <<>>
    /\ extracted = <<>>

pipelineVars == <<pc, diff_text, patch_file, cmd_i, result, ret, log>>

CallNormalize ==
    /\ norm_pc = "call"
    /\ norm_out' = normalize_unified_diff(norm_in)
    /\ norm_pc' = "returned"
    /\ UNCHANGED <<norm_in, norm_again>>
    /\ UNCHANGED pipelineVars
    /\ UNCHANGED extVars
    /\ UNCHANGED fbVars

CallNormalizeAgain ==
    /\ norm_pc = "returned"
    /\ norm_again' = normalize_unified_diff(norm_out)
    /\ norm_pc' = "again"
    /\ UNCHANGED <<norm_in, norm_out>>
    /\ UNCHANGED pipelineVars
    /\ UNCHANGED extVars
    /\ UNCHANGED fbVars

NextNorm == CallNormalize \/ CallNormalizeAgain

SpecNorm == InitNorm /\ [][NextNorm]_vars

(***************************************************************************)
(* extract_diff_block called on its own                                    *)
(***************************************************************************)

\* the pieces an argument is made of: an opening fence with either tag, a
\* bare fence, a line end, a blank, a line of a diff
PieceDiff == Fence \o TagDiff
PiecePatch == Fence \o TagPatch
PieceLine == <<"-", "a">>
Pieces == {PieceDiff, PiecePatch, Fence, NL, <<" ">>, PieceLine}

\* how many pieces an argument of the call holds at most
MaxPieces == 5

\* the arguments: up to MaxPieces pieces, one after the other
ExtractInputs == {Concat(ps) : ps \in UNION {[1..m -> Pieces] : m \in 0..MaxPieces}}

InitExtract ==
    /\ pc = "idle"
    /\ diff_text = <<>>
    /\ patch_file = "none"
    /\ cmd_i = 1
    /\ result = NoResult
    /\ fs = NoFiles
    /\ fs_entry = NoFiles
    /\ b_path = <<>>
    /\ content = <<>>
    /\ changed = 0
    /\ hunk_i = 1
    /\ tier = 0
    /\ fb_ret = None
    /\ ret = None
    /\ log = <<>>
    /\ norm_pc = "idle"
    /\ norm_in = <<>>
    /\ norm_out = <<>>
    /\ norm_again = <<>>
    /\ ext_pc = "call"
    /\ markdown \in ExtractInputs
    /\ extracted = <<>>

CallExtract ==
    /\ ext_pc = "call"
    /\ extracted' = extract_diff_block(markdown)
    /\ ext_pc' = "returned"
    /\ UNCHANGED markdown
    /\ UNCHANGED pipelineVars
    /\ UNCHANGED fbVars
    /\ UNCHANGED normVars

NextExtract == CallExtract

SpecExtract == InitExtract /\ [][NextExtract]_vars

(***************************************************************************)
(* The properties                                                          *)
(***************************************************************************)

\* sub occurs in text, stated without a search
Occurs(text, sub) ==
    \E i \in 1..(Len(text) + 1) :
        i + Len(sub) - 1 <= Len(text) /\ SubSeq(text, i, i + Len(sub) - 1) = sub

\* the three ways a hunk may match a text
MatchesPattern(body, text) == PatternOf(body) # <<>> /\ Occurs(text, PatternOf(body))
MatchesRemovedBlock(body, text) ==
    /\ RemovedOf(body) # <<>>
    /\ Join(RemovedOf(body), NL) # <<>>
    /\ Occurs(text, Join(RemovedOf(body), NL))
MatchesFirstRemoved(body, text) ==
    RemovedOf(body) # <<>> /\ Occurs(text, RemovedOf(body)[1])

Unmatched(body, text) ==
    /\ ~MatchesPattern(body, text)
    /\ ~MatchesRemovedBlock(body, text)
    /\ ~MatchesFirstRemoved(body, text)

\* the fallback is about to take the hunk numbered hunk_i
AtHunk == pc = "fb_hunk" /\ hunk_i <= Len(Hunks(FbText))
CurrentHunk == Hunks(FbText)[hunk_i]

\* the calls of the log that op and what select
CallsOf(op, what) == SelectSeq(log, LAMBDA c : c.op = op /\ c.what = what)

TargetWritten == fs # fs_entry \/ CallsOf("write", "target") # <<>>

\* C1: when the fallback meets a hunk that matches by none of its three
\* strategies it returns failure at once and the target file is what it was
\* when the fallback was called, although earlier hunks may have changed the
\* in-memory content; and the target file is written only after every hunk
\* of the diff has been applied in memory.
C1_MismatchLeavesFileUntouched ==
    /\ [][(AtHunk /\ Unmatched(CurrentHunk, content))
            => /\ pc' = "fb_return"
               /\ fb_ret' # None
               /\ ~fb_ret'[1].ok
               /\ fs = fs_entry
               /\ fs' = fs_entry]_vars
    /\ []((fb_ret # None /\ fb_ret[1].msg = MsgMismatch) => fs = fs_entry)
    /\ [](TargetWritten => (changed = Len(Hunks(FbText)) /\ hunk_i > Len(Hunks(FbText))))

\* C1 witness: a later hunk matched nothing after an earlier one had changed
\* the in-memory content, and the file is unchanged
C1_Witness ==
    /\ pc = "done"
    /\ fb_ret # None
    /\ fb_ret[1].msg = MsgMismatch
    /\ changed >= 1
    /\ b_path \in DOMAIN fs
    /\ content # fs[b_path]
    /\ fs = fs_entry

\* the stages apply_patch has invoked so far, in order
Stages == SelectSeq(log, LAMBDA c : c.op \in {"git", "fallback"})

\* the fixed order: the five modes of git apply, then the fallback
StageOrder ==
    <<"--whitespace=fix", "--ignore-whitespace", "-p0", "-p1", "--reject", "diff_text">>

\* C2: the stages are invoked in the fixed order (git apply with
\* --whitespace=fix, --ignore-whitespace, -p0, -p1, --reject, then the
\* fallback), each one only after the one before it has ended in failure;
\* nothing is invoked after a mode that exits with zero, so that the fallback
\* is not called and the target file is neither probed nor read nor written
\* when one of the five modes succeeds.
C2_StagesInFixedOrder ==
    /\ Len(Stages) <= Len(StageOrder)
    /\ \A k \in 1..Len(Stages) :
        /\ Stages[k].what = StageOrder[k]
        /\ Stages[k].op = (IF k < Len(StageOrder) THEN "git" ELSE "fallback")
    /\ \A k \in 2..Len(Stages) : Stages[k - 1].outcome = "exit 1"
    /\ (\E k \in 1..Len(log) : log[k].op = "git" /\ log[k].outcome = "exit 0")
        => /\ \A j \in 1..Len(log) : log[j].op # "fallback" /\ log[j].what # "target"
           /\ fb_ret = None
           /\ fs = fs_entry

\* C2 witness: the third mode succeeded after two had failed, and the call
\* is over
C2_Witness ==
    /\ pc = "done"
    /\ Len(Stages) = 3
    /\ Stages[1].outcome = "exit 1"
    /\ Stages[2].outcome = "exit 1"
    /\ Stages[3].outcome = "exit 0"
    /\ Stages[3].what = "-p0"

\* the call of apply_patch is over: it returned, or an exception left it
CallOver == pc \in {"done", "raised"}

\* C3: whenever apply_patch has created the temporary patch file, the file
\* is gone when the call is over, whichever way the call ended.
C3_TempFileGoneAtEnd == (CallOver /\ patch_file # "none") => patch_file = "unlinked"

\* C4: a call of apply_patch ends by returning a (success, message) pair: no
\* exception leaves it.
C4_NeverRaises == CallOver => (pc = "done" /\ ret # None)

\* all characters of text are whitespace
IsBlankText(text) == \A i \in 1..Len(text) : IsSpace(text[i])

ReturnedEmptyDiff == ret = Some([ok |-> FALSE, msg |-> <<"Empty diff content">>])

\* C5: called with an empty or whitespace-only text, apply_patch returns
\* failure with the message "Empty diff content" in its first step, having
\* created no temporary file, run no git apply, not called the fallback and
\* neither read nor written a target file.
C5_EmptyDiffFailsFast ==
    /\ [][(pc = "start" /\ IsBlankText(diff_text))
            => /\ pc' = "done"
               /\ ReturnedEmptyDiff'
               /\ log' = <<>>
               /\ patch_file' = "none"
               /\ fs' = fs]_vars
    /\ [](ReturnedEmptyDiff => (log = <<>> /\ patch_file = "none" /\ fs = fs_entry))

\* C5 witness: the call is over with that result and nothing was called
C5_Witness ==
    /\ pc = "done"
    /\ ReturnedEmptyDiff
    /\ diff_text = <<>>
    /\ log = <<>>
    /\ patch_file = "none"

\* the runs of git apply that exited with a code other than zero
GitFailures == SelectSeq(log, LAMBDA c : c.op = "git" /\ c.outcome = "exit 1")

\* what the last run of git apply printed, as line 195 reads it
LastDiagnostic == IF result.stderr # <<>> THEN result.stderr ELSE result.stdout

FirstReplaced(old, new, sub, repl) ==
    \E i \in 1..(Len(old) + 1) :
        /\ i + Len(sub) - 1 <= Len(old)
        /\ SubSeq(old, i, i + Len(sub) - 1) = sub
        /\ \A j \in 1..(i - 1) : SubSeq(old, j, j + Len(sub) - 1) # sub
        /\ new = SubSeq(old, 1, i - 1) \o repl \o SubSeq(old, i + Len(sub), Len(old))

RemovedBlock(body) == Join(RemovedOf(body), NL)
AddedBlock(body) == Join(AddedOf(body), NL)

\* the hunk was counted as applied and the loop went on to the next one
HunkCounted == changed' = changed + 1 /\ hunk_i' = hunk_i + 1 /\ pc' = "fb_hunk"

\* an exception of read_text or write_text is in the log
TargetIOFailed ==
    \E k \in 1..Len(log) : log[k].what = "target" /\ log[k].outcome = "raised"

\* the body of HunkReturn
ReturnBody ==
    <<<<"-", " ", " ", " ", " ", "r", "e", "t", "u", "r", "n", " ", "1">>,
      <<"+", " ", " ", " ", " ", "r", "e", "t", "u", "r", "n", " ", "2">>>>

\* C7: each hunk, taken in the order of the diff against the current
\* in-memory content, is applied by the first of three tiers that matches
\* and by no other: (1) the pattern (context and removed lines) is not empty
\* and occurs: its first occurrence becomes the replacement (context and
\* added lines); (2) the block of removed lines is not empty and occurs: its
\* first occurrence becomes the block of added lines; (3) the first removed
\* line occurs: its first occurrence becomes the block of added lines.  Only
\* that one occurrence changes.  For the file 'def f():\n    return 1\n' and
\* the hunk that removes '    return 1' and adds '    return 2' the file
\* becomes 'def f():\n    return 2\n' with one hunk applied.
C7_FirstMatchingTier ==
    /\ [][AtHunk =>
            LET h == CurrentHunk
            IN  /\ MatchesPattern(h, content)
                    => /\ FirstReplaced(content, content', PatternOf(h), ReplacementOf(h))
                       /\ tier' = 1
                       /\ HunkCounted
                /\ (~MatchesPattern(h, content) /\ MatchesRemovedBlock(h, content))
                    => /\ FirstReplaced(content, content', RemovedBlock(h), AddedBlock(h))
                       /\ tier' = 2
                       /\ HunkCounted
                /\ (~MatchesPattern(h, content) /\ ~MatchesRemovedBlock(h, content)
                        /\ MatchesFirstRemoved(h, content))
                    => /\ FirstReplaced(content, content', RemovedOf(h)[1], AddedBlock(h))
                       /\ tier' = 3
                       /\ HunkCounted
                /\ Unmatched(h, content)
                    => /\ content' = content
                       /\ changed' = changed]_vars
    /\ []((/\ fs_entry = OneFile(PathX, FileDef)
           /\ b_path = PathX
           /\ Hunks(FbText) = <<ReturnBody>>
           /\ fb_ret # None
           /\ ~TargetIOFailed)
            => /\ fs = OneFile(PathX, FileDefPatched)
               /\ fb_ret = Some([ok |-> TRUE, msg |-> <<"Fallback applied ", "1", " hunk(s)">>]))

\* C7 witness: the fallback has patched 'def f():\n    return 1\n' with the
\* hunk of the example, by the first tier
C7_Witness ==
    /\ pc = "done"
    /\ fs_entry = OneFile(PathX, FileDef)
    /\ Hunks(FbText) = <<ReturnBody>>
    /\ tier = 1
    /\ changed = 1
    /\ fs = OneFile(PathX, FileDefPatched)

\* C8: the fallback returns success only when it has applied at least one
\* hunk: a diff without hunks fails even though its target file exists; on
\* success the count of the message is the number of hunks of the diff, all
\* applied in memory before the one write of the target file.
C8_SuccessNeedsAppliedHunk ==
    /\ (fb_ret # None /\ fb_ret[1].ok)
        => /\ changed >= 1
           /\ changed = Len(Hunks(FbText))
           /\ fb_ret[1].msg = <<"Fallback applied ", ToString(Len(Hunks(FbText))), " hunk(s)">>
           /\ Len(CallsOf("write", "target")) = 1
           /\ fs[b_path] = content
    /\ (fb_ret # None /\ Len(Hunks(FbText)) = 0) => ~fb_ret[1].ok
    /\ Len(CallsOf("write", "target")) <= 1
    /\ CallsOf("write", "target") # <<>> => changed = Len(Hunks(FbText))

\* C8 witness: a diff without hunks whose target exists: the file was read
\* and written, and the fallback failed
C8_Witness ==
    /\ pc = "done"
    /\ Len(Hunks(FbText)) = 0
    /\ b_path \in DOMAIN fs
    /\ CallsOf("write", "target") # <<>>
    /\ ~TargetIOFailed
    /\ fb_ret = Some([ok |-> FALSE, msg |-> <<"Fallback: no changes applied">>])

NormReturned == norm_pc \in {"returned", "again"}

\* a header line as git writes it: one space, a path that starts with a/
\* (old file) or b/ (new file) or is /dev/null, no backslash, nothing after
CanonicalHeader(line) ==
    /\ \/ StartsWith(line, HdrMinus \o PrefixA)
       \/ StartsWith(line, HdrPlus \o PrefixB)
       \/ line = HdrMinus \o DevNull
       \/ line = HdrPlus \o DevNull
    /\ ~IsSpace(line[Len(line)])
    /\ \A i \in 1..Len(line) : line[i] # "\\"

\* text starts with "diff --git " and all its header lines are canonical
AlreadyCanonical(text) ==
    /\ StartsWith(text, DiffGit)
    /\ \A k \in 1..Len(Split(UnifyLineEndings(text), NL)) :
        LET line == Split(UnifyLineEndings(text), NL)[k]
        IN  IsHeaderLine(line) => CanonicalHeader(line)

\* C9: normalize_unified_diff is idempotent: called again on what it
\* returned, it returns the same text.  A text that starts with
\* "diff --git " and whose headers have their a/ and b/ prefixes gets no
\* second preamble and no header is rewritten: only the line ends and the
\* trailing newline may change.
C9_NormalizeIdempotent ==
    /\ norm_pc = "again" => norm_again = norm_out
    /\ (NormReturned /\ AlreadyCanonical(norm_in))
        => \/ norm_out = UnifyLineEndings(norm_in)
           \/ norm_out = UnifyLineEndings(norm_in) \o NL

\* C9 witness: the first call put the preamble in front of a text that had
\* none, and the second call returned that text unchanged
C9_Witness ==
    /\ norm_pc = "again"
    /\ ~StartsWith(norm_in, DiffGit)
    /\ StartsWith(norm_out, DiffGit)
    /\ norm_again = norm_out

ExtractReturned == ext_pc = "returned"

\* a fence with one of the two tags stands at position p of text
TaggedFenceAt(text, p) == \E tag \in {TagDiff, TagPatch} : OccursAt(text, Fence \o tag, p)

\* the position after the tag of the tagged fence at p
AfterTag(text, p) ==
    p + Len(Fence) + Len(CHOOSE tag \in {TagDiff, TagPatch} : OccursAt(text, Fence \o tag, p))

\* the ends of the opening line of the tagged fence at p: the position of
\* the first "\n" after the tag, when only whitespace stands between them
\* (no position, or one)
OpeningLineEnds(text, p) ==
    {q \in AfterTag(text, p)..Len(text) :
        /\ text[q] = "\n"
        /\ \A k \in AfterTag(text, p)..(q - 1) : IsSpace(text[k]) /\ text[k] # "\n"}

\* the fences after position q of text
FencesAfter(text, q) == {c \in (q + 1)..Len(text) : OccursAt(text, Fence, c)}

\* a fenced diff or patch block opens at position p: a tagged fence, the
\* rest of its line blank, and a fence that closes it
BlockAt(text, p) ==
    /\ TaggedFenceAt(text, p)
    /\ \E q \in OpeningLineEnds(text, p) : FencesAfter(text, q) # {}

HasBlock(text) == \E p \in 1..Len(text) : BlockAt(text, p)

Least(S) == CHOOSE x \in S : \A y \in S : x <= y
Greatest(S) == CHOOSE x \in S : \A y \in S : y <= x

\* the interior of the first block of text: what stands between the end
\* of its opening line and the first fence after it
Interior(text) ==
    LET p == Least({p \in 1..Len(text) : BlockAt(text, p)})
        q == Least(OpeningLineEnds(text, p))
    IN  SubSeq(text, q + 1, Least(FencesAfter(text, q)) - 1)

\* text without the whitespace-only lines at its end
TrailingBlankLinesRemoved(text) ==
    LET lines == Split(text, NL)
        n == Greatest({k \in 0..Len(lines) : k = 0 \/ ~IsBlankText(lines[k])})
    IN  Join(SubSeq(lines, 1, n), NL)

\* text without the whitespace-only lines at its start (a line ends with "\n")
LeadingBlankLinesRemoved(text) ==
    Drop(text, Greatest({k \in 0..Len(text) :
                            IsBlankText(Take(text, k)) /\ (k = 0 \/ text[k] = "\n")}))

\* text without the whitespace at its end
TrailingSpaceRemoved(text) ==
    Take(text, Greatest({k \in 0..Len(text) : k = 0 \/ ~IsSpace(text[k])}))

\* C11 as claimed: of a text with a fenced diff or patch block,
\* extract_diff_block returns the interior of the first block with only
\* its trailing whitespace-only lines removed, every other character as it
\* was; of a text with no such block, the whole text stripped.
C11_InteriorLessTrailingBlankLines ==
    ExtractReturned
        => IF HasBlock(markdown)
           THEN extracted = TrailingBlankLinesRemoved(Interior(markdown))
           ELSE extracted = strip(markdown)

\* C11 as amended: of a text with a fenced diff or patch block (three
\* backticks, diff or patch, nothing but whitespace to the end of the
\* line, and three backticks further on), extract_diff_block returns the
\* interior of the first block, up to the first fence after its opening
\* line, without its leading whitespace-only lines and without any of its
\* trailing whitespace; of a text with no such block, the whole text
\* stripped.
C11_InteriorTrimmed ==
    ExtractReturned
        => IF HasBlock(markdown)
           THEN extracted = TrailingSpaceRemoved(LeadingBlankLinesRemoved(Interior(markdown)))
           ELSE extracted = strip(markdown)

\* C11 witness: a block whose interior is one line with a blank after it:
\* the line without the blank is returned
C11_Witness ==
    /\ ExtractReturned
    /\ HasBlock(markdown)
    /\ Interior(markdown) = PieceLine \o <<" ">>
    /\ extracted = PieceLine

\* the text whose first occurrence the branch numbered t replaces
MatchedText(body, t) ==
    IF t = 1 THEN PatternOf(body)
    ELSE IF t = 2 THEN RemovedBlock(body)
    ELSE RemovedOf(body)[1]

\* C12: the fallback counts a hunk as applied only when it replaced a
\* non-empty text that occurs in the content: no hunk is applied through a
\* match of the empty string (a hunk whose pattern is not found and whose
\* first removed line is an empty line is not applied by putting the added
\* lines at the start of the file).
C12_NoEmptyMatch ==
    [][(AtHunk /\ changed' = changed + 1)
        => /\ MatchedText(CurrentHunk, tier') # <<>>
           /\ Occurs(content, MatchedText(CurrentHunk, tier'))]_vars

====
